---- MODULE Spec2Model ----
(***************************************************************************)
(* Model of kernel/vm.c (xv6-riscv with demand paging through per-process *)
(* virtual memory areas).                                                  *)
(*                                                                         *)
(* Physical memory is a set of frames 1..NFrames; frame f has physical     *)
(* address f * PGSIZE and physical address 0 is the null pointer.  Every   *)
(* frame has two views of its PGSIZE bytes: a page-table view (NPTE        *)
(* entries) and a data view (PGSIZE bytes).  Sizes are scaled down: a page *)
(* holds PGSIZE bytes, a page-table page NPTE entries, and uint64          *)
(* arithmetic wraps at WordMod; the three-level walk, the rounding macros  *)
(* and every loop are kept as in the source.                               *)
(*                                                                         *)
(* The frame allocator (kalloc.c), the VMA list and the error codes of     *)
(* do_allocate (proc.c, proc.h), the file system (readi) and the macros of *)
(* riscv.h are not part of vm.c; they are modelled from their use in vm.c  *)
(* and from the specification.                                             *)
(*                                                                         *)
(* Specifications:                                                         *)
(*   Spec       the life of address spaces: create, init, grow, shrink,    *)
(*              copy, free                                                 *)
(*   SpecFault  demand paging: page faults on a process with one VMA       *)
(*   SpecLock   page faults while another thread contends for the lock     *)
(*   SpecMap    mappages and walkaddr on memory outside the allocator      *)
(*   SpecCopy   do_allocate_range and copyout                              *)
(*   SpecStr    copyinstr                                                  *)
(*   SpecRace   page faults while another thread removes the VMAs          *)
(*   SpecTail   page faults beyond the file-backed part of a VMA           *)
(*   SpecUnmap  uvmunmap called with any range                             *)
(***************************************************************************)
EXTENDS Integers, Sequences, FiniteSets, TLC

\* riscv.h: bytes per page (4096 in the source, scaled).
PGSIZE == 2
\* riscv.h: PTEs per page-table page (512 in the source, scaled).
NPTE == 2
\* number of physical frames the frame allocator manages
NFrames == 9
\* number of bytes of the backing file of the file-backed VMA
FileSize == 4

\* riscv.h MAXVA: one beyond the highest virtual address of the three-level scheme.
MAXVA == NPTE * NPTE * NPTE * PGSIZE
\* uint64 arithmetic wraps modulo WordMod (2^64 in the source, scaled).
WordMod == 2 * MAXVA

Frames == 1..NFrames

U64(x) == x % WordMod

\* riscv.h: #define PGROUNDUP(sz)  (((sz)+PGSIZE-1) & ~(PGSIZE-1))
PGROUNDDOWN(a) == a - (a % PGSIZE)
PGROUNDUP(sz) == PGROUNDDOWN(U64(sz + PGSIZE - 1))

RECURSIVE Pow(_, _)
Pow(b, e) == IF e = 0 THEN 1 ELSE b * Pow(b, e - 1)

\* riscv.h: #define PX(level, va) ((((uint64) (va)) >> PXSHIFT(level)) & PXMASK)
PX(level, va) == (va \div (PGSIZE * Pow(NPTE, level))) % NPTE

\* A PTE word: its flag bits and its physical page number.
ZeroPte == [flags |-> {}, ppn |-> 0]
PA2PTE(pa) == pa \div PGSIZE
PTE2PA(pte) == pte.ppn * PGSIZE
PTE_FLAGS(pte) == pte.flags

ZeroTable == [i \in 0..(NPTE - 1) |-> ZeroPte]
ZeroData == [i \in 0..(PGSIZE - 1) |-> 0]

\* A pointer to a PTE: <<frame of the page-table page, index>>; NullPte is 0.
NullPte == <<0, 0>>
PteAt(m, p) == m.pt[p[1]][p[2]]
SetPte(m, p, e) == [m EXCEPT !.pt[p[1]][p[2]] = e]

(***************************************************************************)
(* The machine state the functions of vm.c work on is a record m:          *)
(*   m.pt    page-table view of every frame                                *)
(*   m.data  data view of every frame                                      *)
(*   m.free  the allocator's free list: how often each frame is on it    *)
(*   m.st    "ok", "panic" (the kernel panicked) or "hung" (a loop of the  *)
(*           function never exits)                                         *)
(***************************************************************************)
Panic(m) == [m EXCEPT !.st = "panic"]

\* the frames on the free list
FreeFrames(m) == {f \in Frames : m.free[f] > 0}

\* kalloc.c: take a frame off the free list (here the lowest one), or 0 when the
\* list is empty; the frame comes zeroed.
kalloc(m) ==
  IF FreeFrames(m) = {}
  THEN [m |-> m, pa |-> 0]
  ELSE LET f == CHOOSE g \in FreeFrames(m) : \A h \in FreeFrames(m) : g <= h
       IN [m |-> [m EXCEPT !.free[f] = @ - 1, !.data[f] = ZeroData],
           pa |-> f * PGSIZE]

\* kalloc.c: overwrite the frame (to catch dangling references) and put it on
\* the free list (a frame freed twice is on it twice); a bad address panics.
kfree(m, pa) ==
  IF pa % PGSIZE # 0 \/ (pa \div PGSIZE) \notin Frames
  THEN Panic(m)
  ELSE [m EXCEPT !.free[pa \div PGSIZE] = @ + 1, !.data[pa \div PGSIZE] = ZeroData]

RECURSIVE walk_level(_, _, _, _, _)
walk_level(m, pagetable, va, alloc, level) ==
  IF level = 0
  THEN [m |-> m, pte |-> <<pagetable, PX(0, va)>>]
  ELSE LET i == PX(level, va)
           e == m.pt[pagetable][i]
       IN IF "V" \in e.flags
          THEN walk_level(m, e.ppn, va, alloc, level - 1)
          ELSE IF ~alloc
               THEN [m |-> m, pte |-> NullPte]
               ELSE LET k == kalloc(m)
                        f == k.pa \div PGSIZE
                    IN IF k.pa = 0
                       THEN [m |-> k.m, pte |-> NullPte]
                       ELSE walk_level(
                              [k.m EXCEPT !.pt[f] = ZeroTable,
                                          !.pt[pagetable][i] =
                                             [flags |-> {"V"}, ppn |-> PA2PTE(k.pa)]],
                              f, va, alloc, level - 1)

\* walk(): the PTE of va in pagetable, creating page-table pages if alloc.
walk(m, pagetable, va, alloc) ==
  IF va >= MAXVA
  THEN [m |-> m, pte |-> NullPte]
  ELSE walk_level(m, pagetable, va, alloc, 2)

\* walkaddr() with the offset of va in its page added to the result
walkaddr_with_offset(m, pagetable, va) ==
  IF va >= MAXVA THEN 0
  ELSE LET w == walk(m, pagetable, va, FALSE)
       IN IF w.pte = NullPte THEN 0
          ELSE IF "V" \notin PteAt(m, w.pte).flags THEN 0
          ELSE IF "U" \notin PteAt(m, w.pte).flags THEN 0
          ELSE PTE2PA(PteAt(m, w.pte)) + (va % PGSIZE)

\* walkaddr(): the physical address of a user page, or 0.
walkaddr(m, pagetable, va) ==
  IF va >= MAXVA THEN 0
  ELSE LET w == walk(m, pagetable, va, FALSE)
       IN IF w.pte = NullPte THEN 0
          ELSE IF "V" \notin PteAt(m, w.pte).flags THEN 0
          ELSE IF "U" \notin PteAt(m, w.pte).flags THEN 0
          ELSE PTE2PA(PteAt(m, w.pte))

RECURSIVE mappages_loop(_, _, _, _, _, _)
mappages_loop(m, pagetable, a, last, pa, perm) ==
  LET w == walk(m, pagetable, a, TRUE)
  IN IF w.pte = NullPte
     THEN [m |-> w.m, ret |-> -1]
     ELSE IF "V" \in PteAt(w.m, w.pte).flags
          THEN [m |-> Panic(w.m), ret |-> 0]
          ELSE LET m1 == SetPte(w.m, w.pte,
                                [flags |-> perm \cup {"V"}, ppn |-> PA2PTE(pa)])
               IN IF a = last
                  THEN [m |-> m1, ret |-> 0]
                  ELSE mappages_loop(m1, pagetable, U64(a + PGSIZE), last,
                                     pa + PGSIZE, perm)

\* mappages(): install PTEs for [va, va+size) referring to pa onwards.
mappages(m, pagetable, va, size, pa, perm) ==
  mappages_loop(m, pagetable, PGROUNDDOWN(va), PGROUNDDOWN(U64(va + size - 1)),
                pa, perm)

(***************************************************************************)
(* uvmunmap(): for(a = PGROUNDDOWN(va); a <= last; a += PGSIZE).  When     *)
(* a + PGSIZE wraps, a was the largest page-aligned value, so last is that *)
(* value too and no later a exceeds it: the loop never exits; the state is *)
(* the one after the first pass (later passes find nothing to clear).      *)
(***************************************************************************)
RECURSIVE uvmunmap_loop(_, _, _, _, _)
uvmunmap_loop(m, pagetable, a, last, do_free) ==
  IF ~(a <= last) \/ m.st # "ok"
  THEN m
  ELSE LET w == walk(m, pagetable, a, FALSE)
           e == PteAt(m, w.pte)
           m1 == IF w.pte = NullPte THEN m
                 ELSE IF "V" \notin e.flags THEN m
                 ELSE IF PTE_FLAGS(e) = {"V"} THEN Panic(m)
                 ELSE LET m2 == IF do_free THEN kfree(m, PTE2PA(e)) ELSE m
                      IN IF m2.st = "ok" THEN SetPte(m2, w.pte, ZeroPte) ELSE m2
       IN IF m1.st = "ok" /\ a + PGSIZE >= WordMod
          THEN [m1 EXCEPT !.st = "hung"]
          ELSE uvmunmap_loop(m1, pagetable, a + PGSIZE, last, do_free)

uvmunmap(m, pagetable, va, size, do_free) ==
  uvmunmap_loop(m, pagetable, PGROUNDDOWN(va), PGROUNDDOWN(U64(va + size - 1)),
                do_free)

\* uvmcreate(): an empty user page table; panics when out of memory.
uvmcreate(m) ==
  LET k == kalloc(m)
  IN IF k.pa = 0
     THEN [m |-> Panic(k.m), pagetable |-> 0]
     ELSE [m |-> [k.m EXCEPT !.pt[k.pa \div PGSIZE] = ZeroTable],
           pagetable |-> k.pa \div PGSIZE]

\* uvminit() with PTE_U left out of the permissions
uvminit_without_user(m, pagetable, src, sz) ==
  IF sz >= PGSIZE
  THEN Panic(m)
  ELSE LET k == kalloc(m)
           f == k.pa \div PGSIZE
       IN IF k.pa = 0
          THEN Panic(k.m)
          ELSE LET m1 == [k.m EXCEPT !.data[f] = ZeroData]
                   mp == mappages(m1, pagetable, 0, PGSIZE, k.pa, {"W", "R", "X"})
               IN IF mp.m.st # "ok"
                  THEN mp.m
                  ELSE [mp.m EXCEPT !.data[f] =
                          [i \in 0..(PGSIZE - 1) |-> IF i < sz THEN src[i + 1] ELSE @[i]]]

\* uvminit(): load the initcode (sz bytes of src) into address 0 of pagetable.
\* kalloc's result is not checked: memset through a null pointer traps in the kernel.
uvminit(m, pagetable, src, sz) ==
  IF sz >= PGSIZE
  THEN Panic(m)
  ELSE LET k == kalloc(m)
           f == k.pa \div PGSIZE
       IN IF k.pa = 0
          THEN Panic(k.m)
          ELSE LET m1 == [k.m EXCEPT !.data[f] = ZeroData]
                   mp == mappages(m1, pagetable, 0, PGSIZE, k.pa, {"W", "R", "X", "U"})
               IN IF mp.m.st # "ok"
                  THEN mp.m
                  ELSE [mp.m EXCEPT !.data[f] =
                          [i \in 0..(PGSIZE - 1) |-> IF i < sz THEN src[i + 1] ELSE @[i]]]

\* uvmdealloc() that forgets to unmap
uvmdealloc_without_unmap(m, pagetable, oldsz, newsz) ==
  IF newsz >= oldsz
  THEN [m |-> m, ret |-> oldsz]
  ELSE [m |-> m, ret |-> newsz]

\* uvmdealloc() that rounds newsz down instead of up
uvmdealloc_rounding_down(m, pagetable, oldsz, newsz) ==
  IF newsz >= oldsz
  THEN [m |-> m, ret |-> oldsz]
  ELSE LET newup == PGROUNDDOWN(newsz)
       IN [m |-> IF newup < PGROUNDUP(oldsz)
                 THEN uvmunmap(m, pagetable, newup, U64(oldsz - newup), TRUE)
                 ELSE m,
           ret |-> newsz]

\* uvmdealloc(): shrink the process from oldsz to newsz; returns the new size.
uvmdealloc(m, pagetable, oldsz, newsz) ==
  IF newsz >= oldsz
  THEN [m |-> m, ret |-> oldsz]
  ELSE LET newup == PGROUNDUP(newsz)
       IN [m |-> IF newup < PGROUNDUP(oldsz)
                 THEN uvmunmap(m, pagetable, newup, U64(oldsz - newup), TRUE)
                 ELSE m,
           ret |-> newsz]

\* the loop of uvmalloc(); oldsz is already rounded up.
RECURSIVE uvmalloc_loop(_, _, _, _, _)
uvmalloc_loop(m, pagetable, a, oldsz, newsz) ==
  IF ~(a < newsz)
  THEN [m |-> m, ret |-> newsz]
  ELSE LET k == kalloc(m)
           f == k.pa \div PGSIZE
       IN IF k.pa = 0
          THEN [m |-> uvmdealloc(k.m, pagetable, a, oldsz).m, ret |-> 0]
          ELSE LET m1 == [k.m EXCEPT !.data[f] = ZeroData]
                   mp == mappages(m1, pagetable, a, PGSIZE, k.pa, {"W", "X", "R", "U"})
               IN IF mp.m.st # "ok"
                  THEN [m |-> mp.m, ret |-> 0]
                  ELSE IF mp.ret # 0
                  THEN LET m2 == kfree(mp.m, k.pa)
                       IN [m |-> IF m2.st = "ok"
                                 THEN uvmdealloc(m2, pagetable, a, oldsz).m
                                 ELSE m2,
                           ret |-> 0]
                  ELSE uvmalloc_loop(mp.m, pagetable, U64(a + PGSIZE), oldsz, newsz)

\* uvmalloc(): grow the process from oldsz to newsz; returns newsz, or 0 on error.
uvmalloc(m, pagetable, oldsz, newsz) ==
  IF newsz < oldsz
  THEN [m |-> m, ret |-> oldsz]
  ELSE uvmalloc_loop(m, pagetable, PGROUNDUP(oldsz), PGROUNDUP(oldsz), newsz)

(***************************************************************************)
(* freewalk(): recursively free page-table pages.  The recursion of the    *)
(* source has no depth limit; a page-table page that (after a double free) *)
(* is its own descendant makes it recurse without end, which is "hung".    *)
(***************************************************************************)
RECURSIVE freewalk_rec(_, _, _), freewalk_loop(_, _, _, _)
freewalk_loop(m, pagetable, i, depth) ==
  IF i = NPTE \/ m.st # "ok"
  THEN m
  ELSE LET pte == m.pt[pagetable][i]
       IN IF "V" \in pte.flags /\ pte.flags \cap {"R", "W", "X"} = {}
          THEN LET m1 == freewalk_rec(m, pte.ppn, depth + 1)
               IN freewalk_loop(IF m1.st = "ok"
                                THEN [m1 EXCEPT !.pt[pagetable][i] = ZeroPte]
                                ELSE m1,
                                pagetable, i + 1, depth)
          ELSE IF "V" \in pte.flags
          THEN Panic(m)
          ELSE freewalk_loop(m, pagetable, i + 1, depth)

freewalk_rec(m, pagetable, depth) ==
  IF depth > 3 \/ pagetable \notin Frames
  THEN [m EXCEPT !.st = "hung"]
  ELSE LET m1 == freewalk_loop(m, pagetable, 0, depth)
       IN IF m1.st = "ok" THEN kfree(m1, pagetable * PGSIZE) ELSE m1

freewalk(m, pagetable) == freewalk_rec(m, pagetable, 0)

\* uvmfree(): free user memory pages, then free page-table pages.
uvmfree(m, pagetable, sz) ==
  LET m1 == uvmunmap(m, pagetable, 0, sz, TRUE)
  IN IF m1.st = "ok" THEN freewalk(m1, pagetable) ELSE m1

\* the data view of the page at physical address pa (memory outside the
\* allocator's frames reads as zero)
PageAt(m, pa) == IF (pa \div PGSIZE) \in Frames THEN m.data[pa \div PGSIZE] ELSE ZeroData

\* uvmcopy(): copy the parent's memory below sz into the child's page table.
RECURSIVE uvmcopy_loop(_, _, _, _, _)
uvmcopy_loop(m, old, new, i, sz) ==
  IF ~(i < sz)
  THEN [m |-> m, ret |-> 0]
  ELSE LET w == walk(m, old, i, FALSE)
           e == PteAt(m, w.pte)
       IN IF w.pte = NullPte
          THEN uvmcopy_loop(m, old, new, i + PGSIZE, sz)
          ELSE IF "V" \notin e.flags
          THEN uvmcopy_loop(m, old, new, i + PGSIZE, sz)
          ELSE LET pa == PTE2PA(e)
                   flags == PTE_FLAGS(e)
                   k == kalloc(m)
                   f == k.pa \div PGSIZE
               IN IF k.pa = 0
                  THEN [m |-> uvmunmap(k.m, new, 0, i, TRUE), ret |-> -1]
                  ELSE LET m1 == [k.m EXCEPT !.data[f] = PageAt(k.m, pa)]
                           mp == mappages(m1, new, i, PGSIZE, k.pa, flags)
                       IN IF mp.m.st # "ok"
                          THEN [m |-> mp.m, ret |-> 0]
                          ELSE IF mp.ret # 0
                          THEN LET m2 == kfree(mp.m, k.pa)
                               IN [m |-> IF m2.st = "ok"
                                         THEN uvmunmap(m2, new, 0, i, TRUE)
                                         ELSE m2,
                                   ret |-> -1]
                          ELSE uvmcopy_loop(mp.m, old, new, i + PGSIZE, sz)

uvmcopy(m, old, new, sz) == uvmcopy_loop(m, old, new, 0, sz)

\* uvmclear(): mark a PTE invalid for user access.
uvmclear(m, pagetable, va) ==
  LET w == walk(m, pagetable, va, FALSE)
  IN IF w.pte = NullPte
     THEN Panic(m)
     ELSE SetPte(m, w.pte, [PteAt(m, w.pte) EXCEPT !.flags = @ \ {"U"}])

(***************************************************************************)
(* Virtual memory areas (proc.h, consumed): va_begin, va_end, vma_flags,   *)
(* file (0 when anonymous), file_offset, file_nbytes.                      *)
(***************************************************************************)
NoVma == [va_begin |-> 0, va_end |-> 0, vma_flags |-> {}, file |-> 0,
          file_offset |-> 0, file_nbytes |-> 0]

\* get_memory_area(): the VMA of the process that covers addr, or 0.
get_memory_area(vs, addr) ==
  IF \E v \in vs : v.va_begin <= addr /\ addr < v.va_end
  THEN CHOOSE v \in vs : v.va_begin <= addr /\ addr < v.va_end
  ELSE NoVma

\* contents of the backing file
FileByte(i) == 1 + (i % 2)

\* load_from_file() that reads from the start of the file
load_from_file_at_start(m, present, file_start_offset, pa, nbytes) ==
  IF ~present
  THEN [m |-> m, ret |-> -1]
  ELSE LET cnt == IF nbytes < FileSize THEN nbytes ELSE FileSize
           f == pa \div PGSIZE
       IN [m |-> [m EXCEPT !.data[f] =
                    [i \in 0..(PGSIZE - 1) |-> IF i < cnt THEN FileByte(i) ELSE @[i]]],
           ret |-> IF cnt # nbytes THEN -1 ELSE 0]

\* load_from_file(): read nbytes of the file at file_start_offset into the
\* frame at pa; -1 when the file is not found or the read is short.
load_from_file(m, present, file_start_offset, pa, nbytes) ==
  IF ~present
  THEN [m |-> m, ret |-> -1]
  ELSE LET avail == IF file_start_offset > FileSize THEN 0
                    ELSE FileSize - file_start_offset
           cnt == IF nbytes < avail THEN nbytes ELSE avail
           f == pa \div PGSIZE
       IN [m |-> [m EXCEPT !.data[f] =
                    [i \in 0..(PGSIZE - 1) |->
                       IF i < cnt THEN FileByte(file_start_offset + i) ELSE @[i]]],
           ret |-> IF cnt # nbytes THEN -1 ELSE 0]

DaRet(m, err) == [m |-> m, err |-> err, pa |-> 0, off |-> 0, n |-> 0]

\* do_allocate(), lines 387-421: the page is not mapped.  err "WAIT" is the
\* release of the VMA lock before load_from_file.
do_allocate_unmapped(m, pagetable, vma_of_addr, addr, scause) ==
  IF vma_of_addr = NoVma THEN DaRet(m, "ENOVMA")
  ELSE IF scause \notin vma_of_addr.vma_flags THEN DaRet(m, "EBADPERM")
  ELSE LET k == kalloc(m)
       IN IF k.pa = 0 THEN DaRet(k.m, "ENOMEM")
          ELSE IF k.pa % PGSIZE # 0 THEN DaRet(kfree(k.m, k.pa), "ENOMEM")
          ELSE LET flags == {"U"} \cup (vma_of_addr.vma_flags \cap {"R", "W", "X"})
                   mp == mappages(k.m, pagetable, addr, PGSIZE, k.pa, flags)
               IN IF mp.m.st # "ok" THEN DaRet(mp.m, "")
                  ELSE IF mp.ret # 0 THEN DaRet(kfree(mp.m, k.pa), "EMAPFAILED")
                  ELSE IF vma_of_addr.file # 0
                  THEN LET file_start_offset ==
                             U64(vma_of_addr.file_offset + U64(addr - vma_of_addr.va_begin))
                           end == U64(vma_of_addr.file_offset + vma_of_addr.file_nbytes)
                           remainder == U64(end - file_start_offset)
                           nbytes == IF remainder > PGSIZE THEN PGSIZE ELSE remainder
                       IN IF file_start_offset > end
                          THEN DaRet(mp.m, "OK")
                          ELSE [m |-> mp.m, err |-> "WAIT", pa |-> k.pa,
                                off |-> file_start_offset, n |-> nbytes]
                  ELSE DaRet(mp.m, "OK")

\* the mapped path of do_allocate() without the test for an empty flag set
do_allocate_mapped_always_checking(m, pte, vma_of_addr, scause) ==
  IF vma_of_addr = NoVma THEN DaRet(m, "ENOVMA")
  ELSE IF scause \notin vma_of_addr.vma_flags
  THEN DaRet(m, "EBADPERM")
  ELSE IF "U" \notin PteAt(m, pte).flags THEN DaRet(m, "EBADPERM")
  ELSE DaRet(m, "OK")

\* do_allocate(), lines 432-447: the page is already mapped.
do_allocate_mapped(m, pte, vma_of_addr, scause) ==
  IF vma_of_addr = NoVma THEN DaRet(m, "ENOVMA")
  ELSE IF vma_of_addr.vma_flags # {} /\ scause \notin vma_of_addr.vma_flags
  THEN DaRet(m, "EBADPERM")
  ELSE IF "U" \notin PteAt(m, pte).flags THEN DaRet(m, "EBADPERM")
  ELSE DaRet(m, "OK")

\* do_allocate() that does not look for an existing mapping
do_allocate_without_lookup(m, pagetable, vs, addr, scause) ==
  do_allocate_unmapped(m, pagetable, get_memory_area(vs, addr), addr, scause)

\* do_allocate() up to its first return or to the release of the lock.
do_allocate(m, pagetable, vs, addr, scause) ==
  LET vma_of_addr == get_memory_area(vs, addr)
      w == walk(m, pagetable, addr, FALSE)
  IN IF w.pte = NullPte
     THEN do_allocate_unmapped(m, pagetable, vma_of_addr, addr, scause)
     ELSE IF "V" \notin PteAt(m, w.pte).flags
     THEN do_allocate_unmapped(m, pagetable, vma_of_addr, addr, scause)
     ELSE do_allocate_mapped(m, w.pte, vma_of_addr, scause)

\* do_allocate(), lines 424-429: after the lock is reacquired.
do_allocate_finish(m, pa, res) ==
  IF res # 0 THEN DaRet(kfree(m, pa), "ENOFILE") ELSE DaRet(m, "OK")

\* do_allocate_range() that rounds up from one byte beyond the range
range_sup_one_beyond(addr, len) == PGROUNDUP(U64(addr + len + 1))

\* do_allocate_range(), lines 451-452: the bounds of its loop.
range_sup(addr, len) == PGROUNDUP(U64(addr + len))
range_first(addr) == PGROUNDDOWN(addr)

\* do_allocate_range() that goes on to the next page after an error
range_failed_never(err) == FALSE

\* do_allocate_range(), line 455: the test of do_allocate's result.  The
\* error codes are not 0 (proc.h, consumed).
range_failed(err) == err # "OK"

\* memmove(pa, src, n) into physical memory (memory outside the allocator's
\* frames is not modelled)
memmove_to(m, pa, src, n) ==
  IF (pa \div PGSIZE) \notin Frames THEN m
  ELSE [m EXCEPT !.data[pa \div PGSIZE] =
          [i \in 0..(PGSIZE - 1) |->
             IF i >= pa % PGSIZE /\ i < (pa % PGSIZE) + n
             THEN src[i - (pa % PGSIZE) + 1] ELSE @[i]]]

\* copyout(), lines 475-489: the loop after do_allocate_range succeeded.
RECURSIVE copyout_loop(_, _, _, _, _)
copyout_loop(m, pagetable, dstva, src, len) ==
  IF ~(len > 0)
  THEN [m |-> m, ret |-> 0]
  ELSE LET va0 == PGROUNDDOWN(dstva)
           pa0 == walkaddr(m, pagetable, va0)
           n0 == PGSIZE - (dstva - va0)
           n == IF n0 > len THEN len ELSE n0
       IN IF pa0 = 0
          THEN [m |-> m, ret |-> -1]
          ELSE copyout_loop(memmove_to(m, pa0 + (dstva - va0), src, n), pagetable,
                            U64(va0 + PGSIZE), SubSeq(src, n + 1, Len(src)), len - n)

\* copyinstr(), lines 549-561: copy bytes of the page p points into until a
\* '\0' or until n bytes are copied.
RECURSIVE copyinstr_bytes(_, _, _, _, _)
copyinstr_bytes(page, p, n, max, dst) ==
  IF ~(n > 0)
  THEN [dst |-> dst, max |-> max, got_null |-> FALSE]
  ELSE IF page[p] = 0
  THEN [dst |-> Append(dst, 0), max |-> max, got_null |-> TRUE]
  ELSE copyinstr_bytes(page, p + 1, n - 1, max - 1, Append(dst, page[p]))

\* copyinstr() that copies up to the end of the page, whatever max is
copyinstr_page_ignoring_max(m, pagetable, f, srcva, max, dst) ==
  LET va0 == PGROUNDDOWN(srcva)
      pa0 == walkaddr(m, pagetable, va0)
      n == PGSIZE - (srcva - va0)
      b == copyinstr_bytes(PageAt(m, pa0), srcva - va0, n, max, dst)
  IN IF f # "OK" \/ pa0 = 0
     THEN [ret |-> -1, dst |-> dst, max |-> max, got_null |-> FALSE, srcva |-> srcva]
     ELSE [ret |-> 0, dst |-> b.dst, max |-> b.max, got_null |-> b.got_null,
           srcva |-> U64(va0 + PGSIZE)]

\* copyinstr(), lines 534-563: one pass of the loop after do_allocate
\* returned f (an error code is negative: proc.h, consumed).
copyinstr_page(m, pagetable, f, srcva, max, dst) ==
  LET va0 == PGROUNDDOWN(srcva)
      pa0 == walkaddr(m, pagetable, va0)
      n0 == PGSIZE - (srcva - va0)
      n == IF n0 > max THEN max ELSE n0
      b == copyinstr_bytes(PageAt(m, pa0), srcva - va0, n, max, dst)
  IN IF f # "OK" \/ pa0 = 0
     THEN [ret |-> -1, dst |-> dst, max |-> max, got_null |-> FALSE, srcva |-> srcva]
     ELSE [ret |-> 0, dst |-> b.dst, max |-> b.max, got_null |-> b.got_null,
           srcva |-> U64(va0 + PGSIZE)]

(***************************************************************************)
(* The state machine.  One kernel thread runs the operations of vm.c on    *)
(* two user address spaces (1: the process that grows, shrinks and takes   *)
(* page faults, 2: the child that uvmcopy fills); a second thread contends *)
(* for the VMA lock.                                                       *)
(*   pt, data, free   physical memory and the allocator (the record m)     *)
(*   root             root page table of each address space, 0 if none     *)
(*   sz               p->sz of process 1, the size its callers pass        *)
(*   clean            the address space was changed only by uvmalloc,      *)
(*                    uvmdealloc, uvmclear and do_allocate since uvmcreate *)
(*   vmas             the VMAs of process 1                                *)
(*   lock             holder of p->vma_lock: 0 free, 1 the thread, 2 other *)
(*   pc               "idle"; "ret": an operation has returned; "load":    *)
(*                    inside load_from_file; "acq": at acquire() after it; *)
(*                    "panic"; "hung"; in do_allocate_range and copyout:   *)
(*                    "range" at the loop test, "rcall" at the call of     *)
(*                    do_allocate, "resume" after it, "copy" at copyout's  *)
(*                    loop; in copyinstr: "str" at the loop test, "resume" *)
(*                    after do_allocate                                    *)
(*   call             the operation in progress or just returned: its      *)
(*                    arguments a1, a2, c, its result ret, do_allocate's   *)
(*                    result err and its file read (pa, off, n), the loop  *)
(*                    variables cur and left, copyinstr's kernel buffer    *)
(*                    dst and got_null, the do_allocate calls made so far  *)
(*                    (hist) and the pages mapped when it began (pre)      *)
(***************************************************************************)
VARIABLES pt, data, free, root, sz, clean, vmas, lock, pc, call

vars == <<pt, data, free, root, sz, clean, vmas, lock, pc, call>>

\* largest process size, in pages, the operations are called with
MaxPg == 3

AS == {1, 2}
Sizes == {0, PGSIZE + 1, MaxPg * PGSIZE}
PageVAs == {p * PGSIZE : p \in 0..(NPTE * NPTE * NPTE - 1)}
FaultAddrs == {0, PGSIZE, PGSIZE + 1, 2 * PGSIZE}
\* exec(): the page uvmclear makes a guard page
GuardVa == PGSIZE
Causes == <<"R", "W", "X">>
InitCode == [i \in 1..PGSIZE |-> 1 + (i % 2)]

M == [pt |-> pt, data |-> data, free |-> free, st |-> "ok"]

NoCall == [op |-> "none", as |-> 0, a1 |-> 0, a2 |-> 0, ret |-> 0, err |-> "",
           pa |-> 0, off |-> 0, n |-> 0, c |-> 0, cur |-> 0, left |-> 0,
           dst |-> <<>>, got_null |-> FALSE, hist |-> <<>>, pre |-> {}]

Call(op, as, a1, a2, ret) == [NoCall EXCEPT !.op = op, !.as = as, !.a1 = a1,
                                            !.a2 = a2, !.ret = ret]

\* the valid PTEs at the leaf level of the page table rooted at r
IsMapped(m, r, va) ==
  LET w == walk(m, r, va, FALSE)
  IN w.pte # NullPte /\ "V" \in PteAt(m, w.pte).flags
LeafPte(m, r, va) == PteAt(m, walk(m, r, va, FALSE).pte)
Mapped(m, r) == IF r = 0 THEN {} ELSE {va \in PageVAs : IsMapped(m, r, va)}
Leaves(m, r) == {<<va, LeafPte(m, r, va)>> : va \in Mapped(m, r)}
LeafFrames(m, r) == {LeafPte(m, r, va).ppn : va \in Mapped(m, r)}

\* the VMA of process 1: pages 1 and 2, anonymous or backed by bytes
\* [1, 4) of the file
TheVma(fl, file) ==
  [va_begin |-> PGSIZE, va_end |-> 3 * PGSIZE, vma_flags |-> fl, file |-> file,
   file_offset |-> IF file = 0 THEN 0 ELSE 1,
   file_nbytes |-> IF file = 0 THEN 0 ELSE 3]

InitMem ==
  /\ pt = [f \in Frames |-> ZeroTable]
  /\ data = [f \in Frames |-> ZeroData]
  /\ free = [f \in Frames |-> 1]
  /\ root = [a \in AS |-> 0]
  /\ sz = 0
  /\ clean = [a \in AS |-> FALSE]
  /\ lock = 0
  /\ pc = "idle"
  /\ call = NoCall

\* the operation leaves memory as m and the thread returned, panicked or hung
Done(m, c) ==
  /\ pt' = m.pt
  /\ data' = m.data
  /\ free' = m.free
  /\ pc' = IF m.st = "ok" THEN "ret" ELSE m.st
  /\ call' = c

UvmCreate(a) ==
  /\ pc = "idle" /\ root[a] = 0
  /\ \E r \in {uvmcreate(M)} :
        /\ Done(r.m, Call("uvmcreate", a, 0, 0, r.pagetable))
        /\ root' = [root EXCEPT ![a] = r.pagetable]
        /\ clean' = [clean EXCEPT ![a] = (r.pagetable # 0)]
        /\ sz' = IF a = 1 THEN 0 ELSE sz
  /\ UNCHANGED <<vmas, lock>>

\* userinit(): uvminit, then p->sz = PGSIZE
UvmInit(isz) ==
  /\ pc = "idle" /\ root[1] # 0 /\ sz = 0
  /\ \E m \in {uvminit(M, root[1], InitCode, isz)} :
        Done(m, Call("uvminit", 1, isz, 0, 0))
  /\ clean' = [clean EXCEPT ![1] = FALSE]
  /\ sz' = PGSIZE
  /\ UNCHANGED <<root, vmas, lock>>

\* growproc(): sz = uvmalloc(pagetable, sz, newsz), kept when it is not 0
UvmAlloc(newsz) ==
  /\ pc = "idle" /\ root[1] # 0
  /\ \E r \in {uvmalloc(M, root[1], sz, newsz)} :
        /\ Done(r.m, Call("uvmalloc", 1, sz, newsz, r.ret))
        /\ sz' = IF r.ret = 0 THEN sz ELSE r.ret
  /\ UNCHANGED <<root, clean, vmas, lock>>

\* growproc(): sz = uvmdealloc(pagetable, sz, newsz)
UvmDealloc(newsz) ==
  /\ pc = "idle" /\ root[1] # 0
  /\ \E r \in {uvmdealloc(M, root[1], sz, newsz)} :
        /\ Done(r.m, Call("uvmdealloc", 1, sz, newsz, r.ret))
        /\ sz' = r.ret
  /\ UNCHANGED <<root, clean, vmas, lock>>

\* fork(): uvmcopy(p->pagetable, np->pagetable, sz)
UvmCopy(csz) ==
  /\ pc = "idle" /\ root[1] # 0 /\ root[2] # 0
  /\ \E r \in {uvmcopy(M, root[1], root[2], csz)} :
        Done(r.m, Call("uvmcopy", 2, csz, 0, r.ret))
  /\ clean' = [clean EXCEPT ![2] = FALSE]
  /\ UNCHANGED <<root, sz, vmas, lock>>

\* proc_freepagetable(): uvmfree(pagetable, sz)
UvmFree(a, fsz) ==
  /\ pc = "idle" /\ root[a] # 0
  /\ \E m \in {uvmfree(M, root[a], fsz)} :
        /\ Done(m, Call("uvmfree", a, fsz, 0, 0))
        /\ root' = [root EXCEPT ![a] = IF m.st = "ok" THEN 0 ELSE @]
  /\ UNCHANGED <<sz, clean, vmas, lock>>

UvmClear ==
  /\ pc = "idle" /\ root[1] # 0
  /\ \E m \in {uvmclear(M, root[1], GuardVa)} :
        Done(m, Call("uvmclear", 1, GuardVa, 0, 0))
  /\ UNCHANGED <<root, sz, clean, vmas, lock>>

\* a kernel caller maps [va, va + size) to pa onwards
MapPages(va, size, pa, perm) ==
  /\ pc = "idle" /\ root[1] # 0
  /\ \E r \in {mappages(M, root[1], va, size, pa, perm)} :
        Done(r.m, [Call("mappages", 1, va, size, r.ret) EXCEPT !.pa = pa])
  /\ clean' = [clean EXCEPT ![1] = FALSE]
  /\ UNCHANGED <<root, sz, vmas, lock>>

\* a kernel caller looks up the physical address of va
WalkAddr(va) ==
  /\ pc = "idle" /\ root[1] # 0
  /\ Done(M, Call("walkaddr", 1, va, 0, walkaddr(M, root[1], va)))
  /\ UNCHANGED <<root, sz, clean, vmas, lock>>

\* The caller acquires p->vma_lock and calls do_allocate, which runs to its
\* first return or to release(&p->vma_lock) at line 421.
Fault(addr, c) ==
  /\ pc = "idle" /\ root[1] # 0 /\ lock = 0
  /\ \E r \in {do_allocate(M, root[1], vmas, addr, Causes[c])} :
        /\ pt' = r.m.pt /\ data' = r.m.data /\ free' = r.m.free
        /\ call' = [NoCall EXCEPT !.op = "do_allocate", !.as = 1, !.a1 = addr,
                                  !.a2 = c, !.err = r.err, !.pa = r.pa,
                                  !.off = r.off, !.n = r.n]
        /\ pc' = IF r.m.st # "ok" THEN r.m.st
                 ELSE IF r.err = "WAIT" THEN "load" ELSE "ret"
        /\ lock' = IF r.m.st = "ok" /\ r.err = "WAIT" THEN 0 ELSE 1
  /\ UNCHANGED <<root, sz, clean, vmas>>

\* load_from_file() at line 422, the lock released
Load(present) ==
  /\ pc = "load"
  /\ \E r \in {load_from_file(M, present, call.off, call.pa, call.n)} :
        /\ pt' = r.m.pt /\ data' = r.m.data /\ free' = r.m.free
        /\ call' = [call EXCEPT !.ret = r.ret]
  /\ pc' = "acq"
  /\ UNCHANGED <<root, sz, clean, vmas, lock>>

\* the rest of do_allocate after load_from_file without acquire()
Reacquire_without_acquire ==
  /\ pc = "acq"
  /\ \E r \in {do_allocate_finish(M, call.pa, call.ret)} :
        /\ pt' = r.m.pt /\ data' = r.m.data /\ free' = r.m.free
        /\ call' = [call EXCEPT !.err = r.err]
        /\ pc' = IF r.m.st # "ok" THEN r.m.st
                 ELSE IF call.op = "do_allocate" THEN "ret" ELSE "resume"
  /\ lock' = lock
  /\ UNCHANGED <<root, sz, clean, vmas>>

\* acquire(&p->vma_lock) at line 423 and the rest of do_allocate
Reacquire ==
  /\ pc = "acq" /\ lock = 0
  /\ \E r \in {do_allocate_finish(M, call.pa, call.ret)} :
        /\ pt' = r.m.pt /\ data' = r.m.data /\ free' = r.m.free
        /\ call' = [call EXCEPT !.err = r.err]
        /\ pc' = IF r.m.st # "ok" THEN r.m.st
                 ELSE IF call.op = "do_allocate" THEN "ret" ELSE "resume"
  /\ lock' = 1
  /\ UNCHANGED <<root, sz, clean, vmas>>

\* the caller continues; do_allocate's caller releases the lock
Return ==
  /\ pc = "ret"
  /\ pc' = "idle"
  /\ call' = NoCall
  /\ lock' = IF call.op = "do_allocate" THEN 0 ELSE lock
  /\ UNCHANGED <<pt, data, free, root, sz, clean, vmas>>

\* another thread of the kernel takes and drops the VMA lock
OtherAcquire ==
  /\ lock = 0
  /\ lock' = 2
  /\ UNCHANGED <<pt, data, free, root, sz, clean, vmas, pc, call>>

OtherRelease ==
  /\ lock = 2
  /\ lock' = 0
  /\ UNCHANGED <<pt, data, free, root, sz, clean, vmas, pc, call>>

\* the other thread, holding the VMA lock, removes the VMAs of the process
\* (munmap, exit) and frees their records
OtherTeardown ==
  /\ lock = 2 /\ vmas # {}
  /\ vmas' = {}
  /\ UNCHANGED <<pt, data, free, root, sz, clean, lock, pc, call>>

\* a kernel caller unmaps [va, va + size)
UvmUnmap(va, size, do_free) ==
  /\ pc = "idle" /\ root[1] # 0
  /\ \E m \in {uvmunmap(M, root[1], va, size, do_free)} :
        Done(m, [Call("uvmunmap", 1, va, size, 0) EXCEPT !.c = IF do_free THEN 1 ELSE 0,
                                                          !.pre = Mapped(M, root[1])])
  /\ clean' = [clean EXCEPT ![1] = FALSE]
  /\ UNCHANGED <<root, sz, vmas, lock>>

\* the bytes copyout copies to user memory
SrcBytes == <<3, 4, 5>>

\* usertrap(): do_allocate_range(pagetable, p, addr, len, scause), lines 451-452
Range(addr, len, c) ==
  /\ pc = "idle" /\ root[1] # 0
  /\ call' = [NoCall EXCEPT !.op = "do_allocate_range", !.as = 1, !.a1 = addr,
                            !.a2 = len, !.c = c, !.cur = range_first(addr),
                            !.left = range_sup(addr, len),
                            !.pre = Mapped(M, root[1])]
  /\ pc' = "range"
  /\ UNCHANGED <<pt, data, free, root, sz, clean, vmas, lock>>

\* copyout(pagetable, dstva, src, len), line 472: it begins with
\* do_allocate_range(pagetable, myproc(), dstva, len, CAUSE_W)
CopyOut(dstva, len) ==
  /\ pc = "idle" /\ root[1] # 0
  /\ call' = [NoCall EXCEPT !.op = "copyout", !.as = 1, !.a1 = dstva,
                            !.a2 = len, !.c = 2, !.cur = range_first(dstva),
                            !.left = range_sup(dstva, len),
                            !.pre = Mapped(M, root[1])]
  /\ pc' = "range"
  /\ UNCHANGED <<pt, data, free, root, sz, clean, vmas, lock>>

\* do_allocate_range(), lines 453-454 and 461: the loop test, then
\* acquire(&p->vma_lock), or the end of the loop
RangeAcquire ==
  /\ pc = "range"
  /\ IF call.cur < call.left
     THEN /\ lock = 0
          /\ lock' = 1
          /\ pc' = "rcall"
          /\ call' = call
     ELSE /\ lock' = lock
          /\ pc' = IF call.op = "copyout" THEN "copy" ELSE "ret"
          /\ call' = [call EXCEPT !.ret = 0]
  /\ UNCHANGED <<pt, data, free, root, sz, clean, vmas>>

\* do_allocate_range(), line 455: do_allocate up to its first return or to
\* its release of the lock
RangeCall ==
  /\ pc = "rcall"
  /\ \E r \in {do_allocate(M, root[1], vmas, call.cur, Causes[call.c])} :
        /\ pt' = r.m.pt /\ data' = r.m.data /\ free' = r.m.free
        /\ call' = [call EXCEPT !.err = r.err, !.pa = r.pa, !.off = r.off, !.n = r.n]
        /\ pc' = IF r.m.st # "ok" THEN r.m.st
                 ELSE IF r.err = "WAIT" THEN "load" ELSE "resume"
        /\ lock' = IF r.m.st = "ok" /\ r.err = "WAIT" THEN 0 ELSE lock
  /\ UNCHANGED <<root, sz, clean, vmas>>

\* do_allocate_range(), lines 455-460: release(&p->vma_lock), then return -1
\* or go to the next page (copyout returns -1 when the range form does)
RangeRelease ==
  /\ pc = "resume" /\ call.op \in {"do_allocate_range", "copyout"}
  /\ lock' = 0
  /\ IF range_failed(call.err)
     THEN /\ pc' = "ret"
          /\ call' = [call EXCEPT !.ret = -1,
                                  !.hist = Append(@, <<call.cur, call.err>>)]
     ELSE /\ pc' = "range"
          /\ call' = [call EXCEPT !.cur = U64(@ + PGSIZE),
                                  !.hist = Append(@, <<call.cur, call.err>>)]
  /\ UNCHANGED <<pt, data, free, root, sz, clean, vmas>>

\* copyout(), lines 475-489
CopyOutCopy ==
  /\ pc = "copy"
  /\ \E r \in {copyout_loop(M, root[1], call.a1, SrcBytes, call.a2)} :
        Done(r.m, [call EXCEPT !.ret = r.ret])
  /\ UNCHANGED <<root, sz, clean, vmas, lock>>

\* copyinstr() without acquire(&myproc()->vma_lock)
CopyInStr_without_acquire(srcva, max) ==
  /\ pc = "idle" /\ root[1] # 0 /\ lock = 0
  /\ lock' = lock
  /\ call' = [NoCall EXCEPT !.op = "copyinstr", !.as = 1, !.a1 = srcva,
                            !.a2 = max, !.c = 1, !.cur = srcva, !.left = max,
                            !.pre = Mapped(M, root[1])]
  /\ pc' = "str"
  /\ UNCHANGED <<pt, data, free, root, sz, clean, vmas>>

\* copyinstr(pagetable, dst, srcva, max), lines 527-530
CopyInStr(srcva, max) ==
  /\ pc = "idle" /\ root[1] # 0 /\ lock = 0
  /\ lock' = 1
  /\ call' = [NoCall EXCEPT !.op = "copyinstr", !.as = 1, !.a1 = srcva,
                            !.a2 = max, !.c = 1, !.cur = srcva, !.left = max,
                            !.pre = Mapped(M, root[1])]
  /\ pc' = "str"
  /\ UNCHANGED <<pt, data, free, root, sz, clean, vmas>>

\* copyinstr(), lines 531-533 and 565-570: the loop test, then do_allocate of
\* the page of srcva up to its first return or to its release of the lock;
\* after the loop release(&myproc()->vma_lock) and return
StrCall ==
  /\ pc = "str"
  /\ IF ~call.got_null /\ call.left > 0
     THEN \E r \in {do_allocate(M, root[1], vmas, PGROUNDDOWN(call.cur), Causes[call.c])} :
            /\ pt' = r.m.pt /\ data' = r.m.data /\ free' = r.m.free
            /\ call' = [call EXCEPT !.err = r.err, !.pa = r.pa, !.off = r.off,
                                    !.n = r.n]
            /\ pc' = IF r.m.st # "ok" THEN r.m.st
                     ELSE IF r.err = "WAIT" THEN "load" ELSE "resume"
            /\ lock' = IF r.m.st = "ok" /\ r.err = "WAIT" THEN 0 ELSE lock
     ELSE /\ UNCHANGED <<pt, data, free>>
          /\ lock' = 0
          /\ pc' = "ret"
          /\ call' = [call EXCEPT !.ret = IF call.got_null THEN 0 ELSE -1]
  /\ UNCHANGED <<root, sz, clean, vmas>>

\* copyinstr(), lines 534-563: the test of do_allocate's result, walkaddr and
\* the copy of the bytes of the page
StrResume ==
  /\ pc = "resume" /\ call.op = "copyinstr"
  /\ \E r \in {copyinstr_page(M, root[1], call.err, call.cur, call.left, call.dst)} :
        /\ call' = [call EXCEPT !.ret = r.ret, !.dst = r.dst, !.left = r.max,
                                !.got_null = r.got_null, !.cur = r.srcva,
                                !.hist = Append(@, <<PGROUNDDOWN(call.cur), call.err>>)]
        /\ pc' = IF r.ret # 0 THEN "ret" ELSE "str"
        /\ lock' = IF r.ret # 0 THEN 0 ELSE lock
  /\ UNCHANGED <<pt, data, free, root, sz, clean, vmas>>

(***************************************************************************)
(* Spec: the life of address spaces without page faults (userinit,         *)
(* growproc, fork, exit).                                                  *)
(***************************************************************************)
Init ==
  /\ InitMem
  /\ vmas = {}

Next ==
  \/ \E a \in AS : UvmCreate(a)
  \/ \E isz \in 0..(PGSIZE - 1) : UvmInit(isz)
  \/ \E newsz \in Sizes : UvmAlloc(newsz)
  \/ \E newsz \in Sizes : UvmDealloc(newsz)
  \/ \E csz \in Sizes : UvmCopy(csz)
  \/ \E a \in AS, fsz \in Sizes : UvmFree(a, fsz)
  \/ UvmClear
  \/ Return

Spec == Init /\ [][Next]_vars

(***************************************************************************)
(* SpecFault: demand paging.  Process 1 has one VMA, with any flag set,    *)
(* anonymous or file-backed; it grows, gets a guard page, takes page       *)
(* faults and is copied into address space 2.                              *)
(***************************************************************************)
InitFault ==
  /\ InitMem
  /\ \E fl \in SUBSET {"R", "W", "X"}, file \in {0, 1} : vmas = {TheVma(fl, file)}

NextFault ==
  \/ \E a \in AS : UvmCreate(a)
  \/ \E isz \in 0..(PGSIZE - 1) : UvmInit(isz)
  \/ \E newsz \in Sizes : UvmAlloc(newsz)
  \/ \E csz \in Sizes : UvmCopy(csz)
  \/ UvmClear
  \/ \E addr \in FaultAddrs, c \in 1..3 : Fault(addr, c)
  \/ \E present \in BOOLEAN : Load(present)
  \/ Reacquire
  \/ Return

SpecFault == InitFault /\ [][NextFault]_vars

(***************************************************************************)
(* SpecLock: the VMA lock.  Process 1 grows and takes page faults while    *)
(* another thread takes and drops the VMA lock.                            *)
(***************************************************************************)
NextLock ==
  \/ UvmCreate(1)
  \/ \E newsz \in Sizes : UvmAlloc(newsz)
  \/ \E addr \in FaultAddrs, c \in 1..3 : Fault(addr, c)
  \/ \E present \in BOOLEAN : Load(present)
  \/ Reacquire
  \/ Return
  \/ OtherAcquire
  \/ OtherRelease

\* the rest of the kernel holds all but the first n frames
InitLock ==
  /\ pt = [f \in Frames |-> ZeroTable]
  /\ data = [f \in Frames |-> ZeroData]
  /\ \E n \in 1..NFrames : free = [f \in Frames |-> IF f <= n THEN 1 ELSE 0]
  /\ root = [a \in AS |-> 0]
  /\ sz = 0
  /\ clean = [a \in AS |-> FALSE]
  /\ lock = 0
  /\ pc = "idle"
  /\ call = NoCall
  /\ \E fl \in SUBSET {"R", "W", "X"}, file \in {0, 1} : vmas = {TheVma(fl, file)}

SpecLock == InitLock /\ [][NextLock]_vars

(***************************************************************************)
(* SpecMap: a kernel caller maps pages of physical memory that is not the  *)
(* allocator's and looks addresses up.                                     *)
(***************************************************************************)
MapVAs == {0, PGSIZE, PGSIZE + 1}
MapPAs == {(NFrames + 1) * PGSIZE, (NFrames + 3) * PGSIZE}
MapPerms == {{"R", "W", "U"}, {"R", "W"}, {"R", "X", "U"}}
LookupVAs == 0..(3 * PGSIZE - 1) \cup {MAXVA}

NextMap ==
  \/ UvmCreate(1)
  \/ \E va \in MapVAs, size \in {1, PGSIZE}, pa \in MapPAs, perm \in MapPerms :
        MapPages(va, size, pa, perm)
  \/ \E va \in LookupVAs : WalkAddr(va)
  \/ Return

SpecMap == Init /\ [][NextMap]_vars

(***************************************************************************)
(* SpecCopy: the range form of the page fault handler, called by the trap  *)
(* handler and by copyout.                                                 *)
(***************************************************************************)
RangeAddrs == {PGSIZE, PGSIZE + 1, 2 * PGSIZE}
RangeLens == {0, 1, PGSIZE, PGSIZE + 1}

NextCopy ==
  \/ UvmCreate(1)
  \/ \E addr \in RangeAddrs, len \in RangeLens, c \in 1..3 : Range(addr, len, c)
  \/ \E dstva \in RangeAddrs, len \in RangeLens : CopyOut(dstva, len)
  \/ RangeAcquire
  \/ RangeCall
  \/ RangeRelease
  \/ CopyOutCopy
  \/ \E present \in BOOLEAN : Load(present)
  \/ Reacquire
  \/ Return

SpecCopy == InitFault /\ [][NextCopy]_vars

(***************************************************************************)
(* SpecStr: copyinstr from the pages of the VMA while another thread       *)
(* contends for the lock.                                                  *)
(***************************************************************************)
StrAddrs == {PGSIZE, PGSIZE + 1, 2 * PGSIZE, 2 * PGSIZE + 1}
StrMax == 0..(2 * PGSIZE)

NextStr ==
  \/ UvmCreate(1)
  \/ \E srcva \in StrAddrs, max \in StrMax : CopyInStr(srcva, max)
  \/ StrCall
  \/ StrResume
  \/ \E present \in BOOLEAN : Load(present)
  \/ Reacquire
  \/ Return
  \/ OtherAcquire
  \/ OtherRelease

SpecStr == InitLock /\ [][NextStr]_vars

(***************************************************************************)
(* SpecRace: page faults while another thread takes the VMA lock and       *)
(* removes the VMAs of the process.                                        *)
(***************************************************************************)
NextRace ==
  \/ NextLock
  \/ OtherTeardown

SpecRace == InitLock /\ [][NextRace]_vars

(***************************************************************************)
(* SpecTail: page faults on a file-backed VMA that is longer than the part *)
(* of the file it maps: pages 1 to 3, backed by bytes [1, 3) of the file.  *)
(***************************************************************************)
TailVma(fl) ==
  [va_begin |-> PGSIZE, va_end |-> 4 * PGSIZE, vma_flags |-> fl, file |-> 1,
   file_offset |-> 1, file_nbytes |-> PGSIZE]
TailAddrs == {PGSIZE, 2 * PGSIZE, 3 * PGSIZE}

InitTail ==
  /\ InitMem
  /\ \E fl \in SUBSET {"R", "W", "X"} : vmas = {TailVma(fl)}

NextTail ==
  \/ UvmCreate(1)
  \/ \E addr \in TailAddrs, c \in 1..3 : Fault(addr, c)
  \/ \E present \in BOOLEAN : Load(present)
  \/ Reacquire
  \/ Return

SpecTail == InitTail /\ [][NextTail]_vars

(***************************************************************************)
(* SpecUnmap: a kernel caller unmaps ranges of an address space that       *)
(* uvmalloc filled.                                                        *)
(***************************************************************************)
UnmapVAs == {0, 1, PGSIZE, PGSIZE + 1}
UnmapSizes == {0, 1, PGSIZE, PGSIZE + 1}

NextUnmap ==
  \/ UvmCreate(1)
  \/ \E newsz \in Sizes : UvmAlloc(newsz)
  \/ \E va \in UnmapVAs, size \in UnmapSizes, do_free \in BOOLEAN :
        UvmUnmap(va, size, do_free)
  \/ Return

SpecUnmap == Init /\ [][NextUnmap]_vars

(***************************************************************************)
(* Properties.                                                             *)
(***************************************************************************)
\* the page-table pages reachable from root r
ValidPpns(m, t) == {m.pt[t][i].ppn : i \in {j \in 0..(NPTE - 1) : "V" \in m.pt[t][j].flags}}
TableFrames(m, r) ==
  IF r = 0 THEN {}
  ELSE LET l1 == ValidPpns(m, r)
       IN {r} \cup l1 \cup UNION {ValidPpns(m, t) : t \in l1}

\* the pages of r mapped without PTE_U
NoU(m, r) == {va \in Mapped(m, r) : "U" \notin LeafPte(m, r, va).flags}

\* the VMA of the fault address of the call, and the cause of the fault
CallVma == get_memory_area(vmas, call.a1)
CallCause == Causes[call.a2]
FaultReturned == pc = "ret" /\ call.op = "do_allocate"

\* C1 (as claimed): a fault at an address covered by a VMA whose flags lack
\* the cause returns EBADPERM, whether the page is mapped or not and for
\* every flag set, the empty one included.
C1_BadPermAlways ==
  (FaultReturned /\ CallVma # NoVma /\ CallCause \notin CallVma.vma_flags)
    => call.err = "EBADPERM"

\* C1 (amended): such a fault returns EBADPERM when the page is unmapped, or
\* when it is mapped and the flag set is not empty; when the page is mapped
\* and the VMA's flag set is empty the cause is not checked: the fault
\* returns OK if the leaf has PTE_U and EBADPERM if not.  Memory is unchanged.
C1_BadPermUnlessEmptyFlags ==
  [][(pc = "idle" /\ call'.op = "do_allocate"
      /\ get_memory_area(vmas, call'.a1) # NoVma
      /\ Causes[call'.a2] \notin get_memory_area(vmas, call'.a1).vma_flags)
     => /\ pc' = "ret"
        /\ call'.err = IF /\ get_memory_area(vmas, call'.a1).vma_flags = {}
                          /\ IsMapped(M, root[1], call'.a1)
                          /\ "U" \in LeafPte(M, root[1], call'.a1).flags
                       THEN "OK" ELSE "EBADPERM"
        /\ UNCHANGED <<pt, data, free>>]_vars

\* C1 witness: a fault on a mapped user page of a VMA with no flags returned OK.
C1_EmptyFlagsMappedOk ==
  /\ FaultReturned /\ CallVma # NoVma /\ CallVma.vma_flags = {}
  /\ IsMapped(M, root[1], call.a1)
  /\ call.err = "OK"

\* C2 (as claimed): only uvmclear produces a valid leaf PTE without PTE_U;
\* no step of another operation adds a page mapped without PTE_U to an
\* address space.
C2_OnlyClearRemovesU ==
  [][\A a \in AS : NoU(M', root'[a]) \subseteq NoU(M, root[a])
                     \/ call'.op = "uvmclear"]_vars

\* C2 (amended): a valid leaf PTE without PTE_U is produced only by uvmclear
\* (at the guard page of address space 1) and by uvmcopy, which installs in
\* the destination the flags of the source leaf, so a page copied from a
\* source leaf without PTE_U has no PTE_U either; uvmalloc, uvminit and
\* do_allocate install only leaves with PTE_U.  (A step that changes neither
\* a page table nor a root changes no leaf.)
C2_ClearAndCopyRemoveU ==
  [][(pt' # pt \/ root' # root) =>
       \A a \in AS : \A va \in NoU(M', root'[a]) \ NoU(M, root[a]) :
          \/ call'.op = "uvmclear" /\ a = 1 /\ va = GuardVa
          \/ /\ call'.op = "uvmcopy" /\ a = 2
             /\ va \in NoU(M, root[1])
             /\ LeafPte(M', root'[2], va).flags = LeafPte(M, root[1], va).flags]_vars

\* C2 witness: uvmcopy returned and left the destination a leaf without PTE_U.
C2_CopyInstalledNoU ==
  pc = "ret" /\ call.op = "uvmcopy" /\ call.ret = 0 /\ NoU(M, root[2]) # {}

\* C3 (as claimed): uvmfree(root, sz) of an address space changed only by
\* uvmalloc, uvmdealloc, uvmclear and do_allocate since uvmcreate, with all
\* leaves below sz, returns for every sz >= 0 and puts every leaf frame and
\* every page-table page on the free list exactly once.
C3_FreeReturnsAndFreesAll ==
  [][(pc = "idle" /\ call'.op = "uvmfree" /\ clean[call'.as]
      /\ \A va \in Mapped(M, root[call'.as]) : va < call'.a1)
     => /\ pc' = "ret"
        /\ free' = [f \in Frames |->
                     free[f] + IF f \in TableFrames(M, root[call'.as])
                                       \cup LeafFrames(M, root[call'.as])
                               THEN 1 ELSE 0]]_vars

\* C4 (as claimed): a uvmcopy into an empty destination returns, also when
\* it fails, whether at the first page or at a later one; when it fails the
\* destination has no leaf and the allocator has back every frame the call
\* took for a page (the only frames it keeps are page-table pages of the
\* destination).
C4_CopyFailureCleansUp ==
  [][(pc = "idle" /\ call'.op = "uvmcopy" /\ Mapped(M, root[2]) = {})
     => /\ pc' = "ret"
        /\ call'.ret # 0 =>
             /\ Mapped(M', root'[2]) = {}
             /\ {f \in Frames : free'[f] # free[f]}
                  \subseteq TableFrames(M', root'[2])]_vars

\* C5: a uvmalloc(oldsz, newsz) with newsz > oldsz returns; when it returns
\* 0 the leaves of the address space (pages, frames and flags) are those
\* before the call, and the only frames it keeps are page-table pages it added.
C5_AllocFailureRestoresLeaves ==
  [][(pc = "idle" /\ call'.op = "uvmalloc" /\ call'.a2 > call'.a1)
     => /\ pc' = "ret"
        /\ call'.ret \in {0, call'.a2}
        /\ call'.ret = 0 =>
             /\ Leaves(M', root'[1]) = Leaves(M, root[1])
             /\ {f \in Frames : free'[f] # free[f]}
                  = TableFrames(M', root'[1]) \ TableFrames(M, root[1])]_vars

\* C5 witness: uvmalloc from one page to MaxPg pages failed after it had
\* installed a page (the first page it adds needs no page-table page, so the
\* frame now free was installed and then freed by the call).
C5_AllocFailedMidway ==
  /\ pc = "ret" /\ call.op = "uvmalloc" /\ call.ret = 0
  /\ call.a1 = PGSIZE /\ call.a2 = MaxPg * PGSIZE
  /\ FreeFrames(M) # {}
  /\ Mapped(M, root[1]) = {0}

\* C6 (as claimed): no frame is the target of valid leaf PTEs of both
\* address spaces, and after a successful uvmcopy every page of the source
\* below sz is mapped in the destination with equal flags and contents.
C6_CopyIsolation ==
  /\ LeafFrames(M, root[1]) \cap LeafFrames(M, root[2]) = {}
  /\ (pc = "ret" /\ call.op = "uvmcopy" /\ call.ret = 0)
       => \A va \in Mapped(M, root[1]) :
            va < call.a1 =>
              /\ va \in Mapped(M, root[2])
              /\ LeafPte(M, root[2], va).flags = LeafPte(M, root[1], va).flags
              /\ PageAt(M, PTE2PA(LeafPte(M, root[2], va)))
                   = PageAt(M, PTE2PA(LeafPte(M, root[1], va)))

\* C7: when do_allocate has returned OK, calling it again with the same
\* address and cause returns OK at once (without releasing the lock) and
\* changes neither the page tables nor the allocator nor the frames.
C7_SecondFaultIsNoOp ==
  (FaultReturned /\ call.err = "OK")
    => LET r == do_allocate(M, root[1], vmas, call.a1, CallCause)
       IN r.err = "OK" /\ r.m = M

\* C7 witness: do_allocate returned OK after it mapped a page and loaded it.
C7_FaultLoadedOk ==
  /\ FaultReturned /\ call.err = "OK" /\ call.pa # 0
  /\ LeafPte(M, root[1], call.a1).ppn = PA2PTE(call.pa)

\* C8: the thread holds the VMA lock whenever do_allocate has returned, with
\* any result, and does not hold it while load_from_file runs.
C8_LockHeldAtReturnNotInLoad ==
  /\ FaultReturned => lock = 1
  /\ FaultReturned =>
       call.err \in {"OK", "ENOVMA", "EBADPERM", "ENOMEM", "EMAPFAILED", "ENOFILE"}
  /\ pc = "load" => lock # 1

\* C8 witness: do_allocate returned ENOFILE, after the read for which it
\* released the lock, and the thread holds the lock.
C8_ReturnedEnofileLocked ==
  FaultReturned /\ call.err = "ENOFILE" /\ lock = 1

\* C9 (as claimed): walkaddr of an address in a user-mapped page returns the
\* address of the frame plus the offset of the address in its page.
C9_WalkAddrAddsOffset ==
  (pc = "ret" /\ call.op = "walkaddr" /\ call.a1 < MAXVA
   /\ IsMapped(M, root[1], call.a1)
   /\ "U" \in LeafPte(M, root[1], call.a1).flags)
    => call.ret = PTE2PA(LeafPte(M, root[1], call.a1)) + (call.a1 % PGSIZE)

\* C9 (amended): walkaddr of an address in a user-mapped page returns the
\* address of the frame the page is mapped to, without the offset: after
\* mappages(root, PGSIZE, PGSIZE, pa, R|W|U), walkaddr(root, PGSIZE + 1) is pa.
C9_WalkAddrReturnsPageBase ==
  (pc = "ret" /\ call.op = "walkaddr" /\ call.a1 < MAXVA
   /\ IsMapped(M, root[1], call.a1)
   /\ "U" \in LeafPte(M, root[1], call.a1).flags)
    => /\ call.ret = PTE2PA(LeafPte(M, root[1], call.a1))
       /\ call.ret % PGSIZE = 0

\* C9 witness: page 1 is mapped R|W|U to a frame outside the allocator's and
\* walkaddr of the address at offset 1 of page 1 returned that frame's address.
C9_LookedUpInsidePage ==
  /\ pc = "ret" /\ call.op = "walkaddr" /\ call.a1 = PGSIZE + 1
  /\ Mapped(M, root[1]) = {PGSIZE}
  /\ LeafPte(M, root[1], PGSIZE) = [flags |-> {"V", "R", "W", "U"}, ppn |-> NFrames + 1]
  /\ call.ret = (NFrames + 1) * PGSIZE

\* C10 (as claimed): uvmdealloc from three mapped pages to PGSIZE + 1 returns
\* PGSIZE + 1 and leaves page 0 the only mapped page.
C10_DeallocLeavesPageZero ==
  [][(pc = "idle" /\ call'.op = "uvmdealloc"
      /\ Mapped(M, root[1]) = {0, PGSIZE, 2 * PGSIZE}
      /\ call'.a1 = 3 * PGSIZE /\ call'.a2 = PGSIZE + 1)
     => /\ pc' = "ret" /\ call'.ret = PGSIZE + 1
        /\ Mapped(M', root'[1]) = {0}]_vars

\* C10 (amended): uvmdealloc(oldsz, newsz) with newsz < oldsz returns newsz
\* and unmaps the pages from PGROUNDUP(newsz) to the end of oldsz only: from
\* three mapped pages to PGSIZE + 1 it leaves pages 0 and 1 mapped.
C10_DeallocKeepsPartialPage ==
  [][(pc = "idle" /\ call'.op = "uvmdealloc" /\ call'.a2 < call'.a1)
     => /\ pc' = "ret" /\ call'.ret = call'.a2
        /\ Mapped(M', root'[1])
             = {va \in Mapped(M, root[1]) :
                  va < PGROUNDUP(call'.a2) \/ va >= PGROUNDUP(call'.a1)}
        /\ (Mapped(M, root[1]) = {0, PGSIZE, 2 * PGSIZE}
            /\ call'.a1 = 3 * PGSIZE /\ call'.a2 = PGSIZE + 1)
             => Mapped(M', root'[1]) = {0, PGSIZE}]_vars

\* C10 witness: uvmdealloc from three pages to PGSIZE + 1 returned with
\* pages 0 and 1 mapped.
C10_DeallocatedToTwoPages ==
  /\ pc = "ret" /\ call.op = "uvmdealloc"
  /\ call.a1 = 3 * PGSIZE /\ call.a2 = PGSIZE + 1 /\ call.ret = PGSIZE + 1
  /\ Mapped(M, root[1]) = {0, PGSIZE}

\* the byte of user memory at va in the address space rooted at r
UserByte(m, r, va) ==
  PageAt(m, PTE2PA(LeafPte(m, r, PGROUNDDOWN(va))))[va % PGSIZE]

\* the pages of [range_first(addr), range_sup(addr, len))
RangePages(addr, len) ==
  {va \in PageVAs : range_first(addr) <= va /\ va < range_sup(addr, len)}

\* copyout has returned from a call made with no page mapped, on an
\* anonymous VMA with flags R|W
CopyOutReturned ==
  /\ pc = "ret" /\ call.op = "copyout" /\ call.pre = {}
  /\ vmas = {TheVma({"R", "W"}, 0)}

\* C11 (as claimed): with a VMA of two pages with flags R|W and no mappings,
\* a copyout of the bytes that end at the end of the first page of the VMA
\* succeeds and leaves both pages of the VMA mapped.
C11_CopyOutPagesBoth ==
  (CopyOutReturned /\ call.a1 + call.a2 = 2 * PGSIZE /\ call.a2 > 0)
    => /\ call.ret = 0
       /\ {PGSIZE, 2 * PGSIZE} \subseteq Mapped(M, root[1])

\* C11 (amended): with a VMA with flags R|W and no mappings, a copyout to a
\* range inside the VMA succeeds, stores the bytes of src in the range and
\* leaves mapped exactly the pages of
\* [PGROUNDDOWN(dstva), PGROUNDUP(dstva + len)): a copyout of the bytes that
\* end at the end of the first page of the VMA maps the first page only.
C11_CopyOutPagesItsRange ==
  (CopyOutReturned /\ range_sup(call.a1, call.a2) <= 3 * PGSIZE)
    => /\ call.ret = 0
       /\ Mapped(M, root[1]) = RangePages(call.a1, call.a2)
       /\ \A i \in 0..(call.a2 - 1) :
            UserByte(M, root[1], call.a1 + i) = SrcBytes[i + 1]
       /\ (call.a1 + call.a2 = 2 * PGSIZE /\ call.a2 > 0)
            => Mapped(M, root[1]) = {PGSIZE}

\* C11 witness: copyout of the last byte of the first page of the VMA
\* returned 0 with the first page the only page mapped.
C11_CopiedOutToEndOfPage ==
  /\ CopyOutReturned /\ call.a1 = 2 * PGSIZE - 1 /\ call.a2 = 1 /\ call.ret = 0
  /\ Mapped(M, root[1]) = {PGSIZE}
  /\ UserByte(M, root[1], 2 * PGSIZE - 1) = SrcBytes[1]

\* what a page of a file-backed VMA holds: the bytes of the file from
\* file_offset + d on, up to the end of the mapped part of the file, d being
\* the distance of the page from va_begin, then zeros
FilePage(v, d) ==
  [i \in 0..(PGSIZE - 1) |->
     IF d + i < v.file_nbytes THEN FileByte(v.file_offset + d + i) ELSE 0]

StrReturned == pc = "ret" /\ call.op = "copyinstr"

\* the byte at srcva + i is in a mapped page
StrMapped(i) == IsMapped(M, root[1], PGROUNDDOWN(call.a1 + i))

\* the byte of user memory at srcva + i
StrByte(i) == UserByte(M, root[1], call.a1 + i)

\* no do_allocate of the call returned an error
StrFaultsOk == \A j \in 1..Len(call.hist) : call.hist[j][2] = "OK"

\* C13: copyinstr(srcva, max) ends after at most max passes of its loop and
\* returns 0 or -1 with at most max bytes written to the kernel buffer.  It
\* returns 0 exactly when a page fault of the call did not fail and the
\* first '\0' of the user memory at srcva is among the first max bytes; the
\* kernel buffer then holds the bytes up to and including that '\0'.  When
\* no page fault of the call failed and there is no '\0' among the first max
\* bytes, it returns -1 (with these max bytes in the buffer); when a page
\* fault failed it returns -1.
C13_CopyInStr ==
  /\ call.op = "copyinstr" =>
       /\ Len(call.hist) <= call.a2
       /\ Len(call.dst) <= call.a2
       /\ pc \notin {"hung", "panic"}
  /\ StrReturned =>
       /\ call.ret \in {0, -1}
       /\ call.ret = 0 =>
            /\ StrFaultsOk
            /\ Len(call.dst) >= 1
            /\ \A i \in 0..(Len(call.dst) - 1) :
                 /\ StrMapped(i)
                 /\ call.dst[i + 1] = StrByte(i)
                 /\ (StrByte(i) = 0) = (i = Len(call.dst) - 1)
       /\ (call.ret = -1 /\ StrFaultsOk) =>
            /\ Len(call.dst) = call.a2
            /\ \A i \in 0..(call.a2 - 1) :
                 /\ StrMapped(i)
                 /\ call.dst[i + 1] = StrByte(i)
                 /\ StrByte(i) # 0
       /\ ~StrFaultsOk => call.ret = -1

\* C13 witness: copyinstr of 2 * PGSIZE bytes from the start of the
\* file-backed VMA returned 0 with the three bytes of the file and the '\0'
\* after them, read from two pages, in the kernel buffer.
C13_CopiedStringAcrossPages ==
  /\ StrReturned /\ call.ret = 0 /\ call.a1 = PGSIZE /\ call.a2 = 2 * PGSIZE
  /\ call.dst = <<FileByte(1), FileByte(2), FileByte(3), 0>>

\* C14 (as claimed): do_allocate reads no field of the VMA it found while the
\* lock is released, so a teardown of the VMA under the lock cannot come
\* before a read: when the thread is at line 422, where it reads
\* vma_of_addr->file for load_from_file, the VMA it found is still a VMA of
\* the process.
C14_VmaLiveWhenFileRead ==
  (pc = "load" /\ call.op = "do_allocate")
    => get_memory_area(vmas, call.a1) # NoVma

\* C15 (as claimed): from its acquire to its final release copyinstr holds
\* the VMA lock in every state, whether the VMA is anonymous or file-backed.
C15_StrHoldsLockThroughout ==
  (call.op = "copyinstr" /\ pc # "ret") => lock = 1

\* C15 (amended): copyinstr holds the VMA lock from its acquire to its
\* return except while do_allocate reads the file: for a page of a
\* file-backed VMA that is not mapped yet, do_allocate releases the lock
\* before load_from_file and takes it again after, and another thread can
\* hold the lock in between.  At the loop test, after each do_allocate and
\* while it copies, copyinstr holds the lock; when it has returned it does not.
C15_StrHoldsLockExceptInLoad ==
  /\ (call.op = "copyinstr" /\ pc \in {"str", "resume"}) => lock = 1
  /\ (call.op = "copyinstr" /\ pc \in {"load", "acq"})
       => /\ lock # 1
          /\ get_memory_area(vmas, PGROUNDDOWN(call.cur)).file # 0
          /\ PGROUNDDOWN(call.cur) \notin call.pre
  /\ StrReturned => lock # 1

\* C15 witness: copyinstr is in load_from_file and the other thread holds
\* the lock.
C15_OtherHoldsLockInStr ==
  call.op = "copyinstr" /\ pc = "load" /\ lock = 2

\* do_allocate_range is running or has returned
InRange == call.op = "do_allocate_range"

\* the number of pages of [range_first(addr), range_sup(addr, len))
RangeCount(addr, len) ==
  IF range_sup(addr, len) > range_first(addr)
  THEN (range_sup(addr, len) - range_first(addr)) \div PGSIZE
  ELSE 0

\* C16: do_allocate_range(addr, len, cause) calls do_allocate once for each
\* page of [PGROUNDDOWN(addr), PGROUNDUP(addr + len)), in ascending order,
\* holding the lock it acquired before the call and not holding it between
\* the calls; it stops at the first page whose result is not OK and returns
\* -1, with the pages resolved before still mapped and no later page
\* resolved (the pages beyond the failed one are mapped as they were before
\* the call); it returns 0 only when the call of every page returned OK;
\* whenever it has returned the caller does not hold the lock.
C16_RangePerPage ==
  InRange =>
    /\ pc \in {"rcall", "resume"} => lock = 1
    /\ pc \in {"range", "ret"} => lock # 1
    /\ Len(call.hist) <= RangeCount(call.a1, call.a2)
    /\ \A i \in 1..Len(call.hist) :
         /\ call.hist[i][1] = range_first(call.a1) + (i - 1) * PGSIZE
         /\ i < Len(call.hist) => call.hist[i][2] = "OK"
         /\ call.hist[i][2] = "OK" => IsMapped(M, root[1], call.hist[i][1])
    /\ pc = "ret" =>
         /\ call.ret \in {0, -1}
         /\ call.ret = 0 =>
              /\ Len(call.hist) = RangeCount(call.a1, call.a2)
              /\ \A i \in 1..Len(call.hist) : call.hist[i][2] = "OK"
         /\ call.ret = -1 =>
              /\ Len(call.hist) >= 1
              /\ call.hist[Len(call.hist)][2]
                   \in {"ENOVMA", "EBADPERM", "ENOMEM", "EMAPFAILED", "ENOFILE"}
              /\ \A va \in PageVAs :
                   va > call.hist[Len(call.hist)][1]
                     => (IsMapped(M, root[1], va) <=> va \in call.pre)

\* C16 witness: do_allocate_range over two pages returned -1 after it had
\* resolved the first page, which is mapped now and was not before, and
\* failed at the second, which is not mapped.
C16_RangeFailedAtSecondPage ==
  /\ InRange /\ pc = "ret" /\ call.ret = -1 /\ Len(call.hist) = 2
  /\ call.hist[1][2] = "OK"
  /\ call.hist[1][1] \notin call.pre
  /\ IsMapped(M, root[1], call.hist[1][1])
  /\ ~IsMapped(M, root[1], call.hist[2][1])
  /\ lock = 0

\* the page of the fault address lies at or beyond the end of the part of
\* the file the VMA maps: file_offset + (addr - va_begin) >= file_offset +
\* file_nbytes
AtOrBeyondFileEnd ==
  /\ CallVma.file # 0
  /\ U64(CallVma.file_offset + U64(call.a1 - CallVma.va_begin))
       >= U64(CallVma.file_offset + CallVma.file_nbytes)

\* C17 (as claimed): a do_allocate that demand-pages a page of a file-backed
\* VMA at or beyond the end of the mapped part of the file (equality
\* included) reads no file and never releases the lock: it is never in
\* load_from_file, it returns OK, not ENOFILE, with the lock held, and the
\* frame of the page is all zero.
C17_TailPageNoRead ==
  (call.op = "do_allocate" /\ pc \in {"load", "acq", "ret"} /\ AtOrBeyondFileEnd
   /\ call.err \in {"OK", "WAIT", "ENOFILE"})
    => /\ pc = "ret" /\ call.err = "OK" /\ call.pa = 0
       /\ lock = 1
       /\ PageAt(M, PTE2PA(LeafPte(M, root[1], call.a1))) = ZeroData

\* C18 (as claimed): a do_allocate(addr) that finds the page of addr not
\* mapped and returns OK, addr page-aligned or not, adds exactly one leaf
\* PTE, the one of the page of addr, and changes no other; the frame of the
\* new leaf comes from the allocator, it is the only frame the call takes
\* apart from page-table pages, and every leaf refers to a frame that was
\* mapped before or to that frame.
C18_FaultMapsOnePage ==
  [][(pc = "idle" /\ call'.op = "do_allocate" /\ pc' = "ret" /\ call'.err = "OK"
      /\ ~IsMapped(M, root[1], call'.a1))
     => /\ Mapped(M', root'[1]) = Mapped(M, root[1]) \cup {PGROUNDDOWN(call'.a1)}
        /\ Leaves(M, root[1]) \subseteq Leaves(M', root'[1])
        /\ free[LeafPte(M', root'[1], call'.a1).ppn] > 0
        /\ {f \in Frames : free'[f] # free[f]}
              \ (TableFrames(M', root'[1]) \ TableFrames(M, root[1]))
             = {LeafPte(M', root'[1], call'.a1).ppn}
        /\ LeafFrames(M', root'[1])
             \subseteq LeafFrames(M, root[1]) \cup {LeafPte(M', root'[1], call'.a1).ppn}]_vars

\* C19 (as claimed): in every state, whatever the operations returned, no
\* valid leaf PTE of a user address space refers to a frame that is on the
\* allocator's free list.
C19_LeafFramesAllocated ==
  \A a \in AS : LeafFrames(M, root[a]) \cap FreeFrames(M) = {}

\* the pages that overlap [va, va + size)
Overlapping(va, size) ==
  {PGROUNDDOWN(U64(va + i)) : i \in 0..(size - 1)}

\* C20 (as claimed): uvmunmap(va, size, do_free) returns for every va and
\* size >= 0; it clears only leaf PTEs of pages that overlap [va, va + size)
\* and changes no other, it frees only the frames of the PTEs it cleared,
\* once each and only with do_free, and with size 0 it changes nothing.
C20_UnmapReturnsInRange ==
  [][(pc = "idle" /\ call'.op = "uvmunmap")
     => /\ pc' = "ret"
        /\ Leaves(M', root'[1]) \subseteq Leaves(M, root[1])
        /\ Mapped(M, root[1]) \ Mapped(M', root'[1])
             \subseteq Overlapping(call'.a1, call'.a2)
        /\ free' = [f \in Frames |->
                     free[f] + IF /\ call'.c = 1
                                  /\ f \in LeafFrames(M, root[1])
                                            \ LeafFrames(M', root'[1])
                               THEN 1 ELSE 0]
        /\ call'.a2 = 0 => (pt' = pt /\ free' = free)]_vars

====
